---- MODULE Spec2Model ----
(***************************************************************************)
(* twinicodo: search tweets page by page, decode them, turn them into      *)
(* niconico chats and write the chats as an XML comment file.              *)
(*                                                                         *)
(* Strings whose characters matter (tweet ids, cookie strings) are         *)
(* sequences of one-character strings; strings that are only compared      *)
(* (cursors, entry ids, screen names) are TLA+ strings.                    *)
(* Option<T> is a sequence of length at most one: None == <<>>,            *)
(* Some(x) == <<x>>.                                                       *)
(***************************************************************************)
EXTENDS Integers, Sequences, FiniteSets, TLC

None == <<>>
Some(x) == <<x>>
IsSome(o) == o # <<>>
Unwrap(o) == o[1]

Last(s) == s[Len(s)]
Front(s) == SubSeq(s, 1, Len(s) - 1)

(***************************************************************************)
(* Unbounded decimal arithmetic on digit sequences (most significant digit *)
(* first).  Tweet ids and millisecond instants do not fit the checker's    *)
(* machine integers, so the i64 arithmetic of TweetID::datetime is done on *)
(* digits; an i64 is [neg |-> BOOLEAN, mag |-> digits].                    *)
(***************************************************************************)
Digits == <<"0", "1", "2", "3", "4", "5", "6", "7", "8", "9">>
IsDigit(c) == \E i \in 1..10 : Digits[i] = c
DigitVal(c) == (CHOOSE i \in 1..10 : Digits[i] = c) - 1

RECURSIVE BigNorm(_)
BigNorm(d) == IF Len(d) > 1 /\ d[1] = 0 THEN BigNorm(Tail(d)) ELSE d

RECURSIVE BigLexLess(_, _)
BigLexLess(a, b) ==
    IF a = <<>> THEN FALSE
    ELSE IF a[1] # b[1] THEN a[1] < b[1]
    ELSE BigLexLess(Tail(a), Tail(b))

BigLess(a, b) ==
    LET x == BigNorm(a)
        y == BigNorm(b)
    IN  IF Len(x) # Len(y) THEN Len(x) < Len(y) ELSE BigLexLess(x, y)

BigLeq(a, b) == ~BigLess(b, a)

RECURSIVE BigPad(_, _)
BigPad(d, n) == IF Len(d) >= n THEN d ELSE BigPad(<<0>> \o d, n)

RECURSIVE BigAddCarry(_, _, _)
BigAddCarry(a, b, carry) ==
    IF a = <<>> THEN (IF carry = 0 THEN <<>> ELSE <<carry>>)
    ELSE LET s == Last(a) + Last(b) + carry
         IN  Append(BigAddCarry(Front(a), Front(b), s \div 10), s % 10)

BigAdd(a, b) ==
    LET n == IF Len(a) > Len(b) THEN Len(a) ELSE Len(b)
    IN  BigNorm(BigAddCarry(BigPad(a, n), BigPad(b, n), 0))

RECURSIVE BigSubBorrow(_, _, _)
BigSubBorrow(a, b, borrow) ==
    IF a = <<>> THEN <<>>
    ELSE LET s == Last(a) - Last(b) - borrow
         IN  Append(BigSubBorrow(Front(a), Front(b), IF s < 0 THEN 1 ELSE 0),
                    IF s < 0 THEN s + 10 ELSE s)

\* a - b for a >= b
BigSub(a, b) == BigNorm(BigSubBorrow(BigPad(a, Len(b)), BigPad(b, Len(a)), 0))

RECURSIVE BigDivRem(_, _, _)
\* long division of the digits d by the machine integer k, rem carried in
BigDivRem(d, k, rem) ==
    IF d = <<>> THEN [quot |-> <<>>, rem |-> rem]
    ELSE LET cur == rem * 10 + d[1]
             rest == BigDivRem(Tail(d), k, cur % k)
         IN  [quot |-> <<cur \div k>> \o rest.quot, rem |-> rest.rem]

BigDiv(d, k) == BigNorm(BigDivRem(d, k, 0).quot)
BigMod(d, k) == BigDivRem(d, k, 0).rem

RECURSIVE BigToInt(_)
BigToInt(d) == IF d = <<>> THEN 0 ELSE BigToInt(Front(d)) * 10 + Last(d)

RECURSIVE IntToBig(_)
IntToBig(n) == IF n < 10 THEN <<n>> ELSE Append(IntToBig(n \div 10), n % 10)

BigZero == <<0>>
BigOne == <<1>>
IsZero(d) == BigNorm(d) = BigZero

\* i64::MAX = 9223372036854775807
I64MaxMag == <<9, 2, 2, 3, 3, 7, 2, 0, 3, 6, 8, 5, 4, 7, 7, 5, 8, 0, 7>>
\* 1288834974657, the constant added in TweetID::datetime
EpochMillis == <<1, 2, 8, 8, 8, 3, 4, 9, 7, 4, 6, 5, 7>>
\* 1 << 22
TwoPow22 == 4194304
MillisPerSec == 1000

(***************************************************************************)
(* twitter.rs: TweetID::datetime                                           *)
(***************************************************************************)
AllDigits(s) == \A i \in 1..Len(s) : IsDigit(s[i])
DigitsOf(s) == [i \in 1..Len(s) |-> DigitVal(s[i])]

\* str::parse::<i64>: an optional sign, then at least one digit and digits
\* only, and a value within the range of i64; None is the ParseIntError.
ParseI64(s) ==
    IF s = <<>> THEN None
    ELSE LET signed == s[1] \in {"+", "-"}
             body == IF signed THEN Tail(s) ELSE s
             neg == s[1] = "-"
         IN  IF body = <<>> \/ ~AllDigits(body) THEN None
             ELSE LET mag == BigNorm(DigitsOf(body))
                      limit == IF neg THEN BigAdd(I64MaxMag, BigOne) ELSE I64MaxMag
                  IN  IF BigLess(limit, mag) THEN None
                      ELSE Some([neg |-> neg /\ ~IsZero(mag), mag |-> mag])

Shr22TowardZero(v) == [neg |-> v.neg, mag |-> BigDiv(v.mag, TwoPow22)]

\* v >> 22 on an i64: the floor of v / 2^22
Shr22(v) ==
    IF ~v.neg THEN [neg |-> FALSE, mag |-> BigDiv(v.mag, TwoPow22)]
    ELSE [neg |-> TRUE,
          mag |-> BigDiv(BigAdd(v.mag, IntToBig(TwoPow22 - 1)), TwoPow22)]

\* v + 1288834974657
AddEpoch(v) ==
    IF ~v.neg THEN [neg |-> FALSE, mag |-> BigAdd(v.mag, EpochMillis)]
    ELSE IF BigLeq(v.mag, EpochMillis)
         THEN [neg |-> FALSE, mag |-> BigSub(EpochMillis, v.mag)]
         ELSE [neg |-> TRUE, mag |-> BigSub(v.mag, EpochMillis)]

\* Utc.timestamp_millis(ms): whole seconds (rounded down) and the
\* milliseconds within the second
timestamp_millis(ms) ==
    IF ~ms.neg
    THEN [secs |-> BigToInt(BigDiv(ms.mag, MillisPerSec)),
          millis |-> BigMod(ms.mag, MillisPerSec)]
    ELSE LET r == BigMod(ms.mag, MillisPerSec)
             q == BigToInt(BigDiv(ms.mag, MillisPerSec))
         IN  IF r = 0 THEN [secs |-> 0 - q, millis |-> 0]
             ELSE [secs |-> 0 - q - 1, millis |-> MillisPerSec - r]

\* TweetID::datetime(): Ok(DateTime) as Some, Err(ParseIntError) as None
datetime(id_str) ==
    LET n == ParseI64(id_str)
    IN  IF n = None THEN None
        ELSE Some(timestamp_millis(AddEpoch(Shr22(Unwrap(n)))))

\* Ord for DateTime<Utc> and for Option<DateTime<Utc>> (None is least)
DateTimeLess(a, b) ==
    a.secs < b.secs \/ (a.secs = b.secs /\ a.millis < b.millis)

CreatedAtLess(a, b) ==
    IF a = None THEN b # None
    ELSE IF b = None THEN FALSE
    ELSE DateTimeLess(Unwrap(a), Unwrap(b))

(***************************************************************************)
(* twitter.rs: From<RawTweet> for Tweet, From<RawResponse> for Response    *)
(***************************************************************************)
\* mutant: an id that does not parse is given the Unix epoch as its instant
TweetFromRawEpoch(tweet) ==
    [id |-> tweet.id_str,
     created_at |-> IF datetime(tweet.id_str) = None
                    THEN Some([secs |-> 0, millis |-> 0])
                    ELSE datetime(tweet.id_str),
     full_text |-> tweet.full_text,
     user_id |-> tweet.user_id_str,
     user |-> None]

TweetFromRaw(tweet) ==
    [id |-> tweet.id_str,
     created_at |-> datetime(tweet.id_str),
     full_text |-> tweet.full_text,
     user_id |-> tweet.user_id_str,
     user |-> None]

\* res.global_objects.tweets is a map; res.tweets lists its values in the
\* order the map iterates them.  users is a function on the user ids present.
ResponseFromRaw(res) ==
    [i \in 1..Len(res.tweets) |->
        LET tweet == res.tweets[i]
            user == IF tweet.user_id_str \in DOMAIN res.users
                    THEN Some(res.users[tweet.user_id_str])
                    ELSE None
        IN  [TweetFromRaw(tweet) EXCEPT !.user = user]]

(***************************************************************************)
(* twitter.rs: RawResponse::next_cursor                                    *)
(***************************************************************************)
CursorBottom == "sq-cursor-bottom"

InstructionEntries(i) ==
    IF IsSome(i.add_entries) THEN Unwrap(i.add_entries)
    ELSE IF IsSome(i.replace_entry) THEN <<Unwrap(i.replace_entry)>>
    ELSE <<>>

RECURSIVE FlattenEntries(_)
FlattenEntries(instructions) ==
    IF instructions = <<>> THEN <<>>
    ELSE InstructionEntries(instructions[1]) \o FlattenEntries(Tail(instructions))

RECURSIVE FindEntry(_, _)
FindEntry(entries, entry_id) ==
    IF entries = <<>> THEN None
    ELSE IF entries[1].entry_id = entry_id THEN Some(entries[1])
    ELSE FindEntry(Tail(entries), entry_id)

next_cursor(res) ==
    LET e == FindEntry(FlattenEntries(res.instructions), CursorBottom)
    IN  IF e = None THEN None ELSE Unwrap(e).operation

(***************************************************************************)
(* iter.rs: cleanup.  Texts are sequences of characters.                   *)
(***************************************************************************)
\* \w of the regex crate, over the characters the model's texts use
WordChars ==
    {"a", "b", "c", "d", "e", "f", "g", "h", "i", "j", "k", "l", "m", "n",
     "o", "p", "q", "r", "s", "t", "u", "v", "w", "x", "y", "z", "_",
     "0", "1", "2", "3", "4", "5", "6", "7", "8", "9"}
\* \s, and what str::trim removes
WhiteSpace == {" ", "\t", "\n", "\r"}
HorizontalSpace == {" ", "\t"}

\* the length of the longest prefix of s[from..] whose characters are in set
RECURSIVE RunLength(_, _, _)
RunLength(s, from, set) ==
    IF from > Len(s) \/ s[from] \notin set THEN 0
    ELSE 1 + RunLength(s, from + 1, set)

StartsWithAt(s, from, prefix) ==
    /\ from + Len(prefix) - 1 <= Len(s)
    /\ SubSeq(s, from, from + Len(prefix) - 1) = prefix

\* RE_HASHTAG = #[\w_]+[ \t]* : the length of its match at position from, 0 for none
HashtagMatch(s, from) ==
    IF from > Len(s) \/ s[from] # "#" THEN 0
    ELSE LET w == RunLength(s, from + 1, WordChars)
         IN  IF w = 0 THEN 0
             ELSE 1 + w + RunLength(s, from + 1 + w, HorizontalSpace)

IsUrlCharNoNewline(c) == c \notin WhiteSpace

\* [\n\S]: a newline, or anything that is not whitespace
IsUrlChar(c) == c = "\n" \/ c \notin WhiteSpace

RECURSIVE UrlRunLength(_, _)
UrlRunLength(s, from) ==
    IF from > Len(s) \/ ~IsUrlChar(s[from]) THEN 0
    ELSE 1 + UrlRunLength(s, from + 1)

\* the length of the scheme and "://" of RE_URL at position from, 0 for none
SchemeMatch(s, from) ==
    IF StartsWithAt(s, from, <<"h", "t", "t", "p", "s", ":", "/", "/">>) THEN 8
    ELSE IF StartsWithAt(s, from, <<"h", "t", "t", "p", ":", "/", "/">>) THEN 7
    ELSE IF StartsWithAt(s, from, <<"f", "t", "p", ":", "/", "/">>) THEN 6
    ELSE 0

\* RE_URL = (?:https?|ftp)://[\n\S]+
UrlMatch(s, from) ==
    LET h == SchemeMatch(s, from)
        r == IF h = 0 THEN 0 ELSE UrlRunLength(s, from + h)
    IN  IF r = 0 THEN 0 ELSE h + r

\* Regex::replace_all(s, ""): the leftmost matches, none overlapping, removed
RECURSIVE RemoveHashtags(_, _)
RemoveHashtags(s, from) ==
    IF from > Len(s) THEN <<>>
    ELSE LET m == HashtagMatch(s, from)
         IN  IF m = 0 THEN <<s[from]>> \o RemoveHashtags(s, from + 1)
             ELSE RemoveHashtags(s, from + m)

RECURSIVE RemoveUrls(_, _)
RemoveUrls(s, from) ==
    IF from > Len(s) THEN <<>>
    ELSE LET m == UrlMatch(s, from)
         IN  IF m = 0 THEN <<s[from]>> \o RemoveUrls(s, from + 1)
             ELSE RemoveUrls(s, from + m)

RECURSIVE TrimStart(_)
TrimStart(s) ==
    IF s # <<>> /\ s[1] \in WhiteSpace THEN TrimStart(Tail(s)) ELSE s

RECURSIVE TrimEnd(_)
TrimEnd(s) ==
    IF s # <<>> /\ Last(s) \in WhiteSpace THEN TrimEnd(Front(s)) ELSE s

Trim(s) == TrimEnd(TrimStart(s))

cleanup(s) == Trim(RemoveUrls(Trim(RemoveHashtags(s, 1)), 1))

(***************************************************************************)
(* iter.rs: TweetToChatIterator, map_to_chat, map_to_sorted_chats          *)
(***************************************************************************)
\* The instants of the input domains are not before 1970 and are sorted
\* before they reach the iterator, so neither cast nor subtraction wraps in
\* the states explored; the wrapping branches state what the code would do.
TwoPow64 == 2 ^ 64

\* `x as u64` of an i64
AsU64(x) == IF x >= 0 THEN x ELSE TwoPow64 + x

\* a - b on u64 (wrapping below zero, as a release build does)
SubU64(a, b) == IF a >= b THEN a - b ELSE TwoPow64 + a - b

\* TweetToChatIterator(I, u64) is [rest |-> the tweets left, origin |-> self.1]
map_to_chat(tweets) == [rest |-> tweets, origin |-> 0]

ChatDate(t) ==
    IF t.created_at = None THEN 0 ELSE AsU64(Unwrap(t.created_at).secs)

ChatVpos(origin, date) == IF origin = 0 THEN 0 ELSE SubU64(date, origin)

NextOrigin(origin, date) == IF origin = 0 THEN date ELSE origin

\* TweetToChatIterator::next on a non-empty iterator: the chat and the
\* iterator after the call
ChatIterNext(it) ==
    LET t == it.rest[1]
        date == ChatDate(t)
    IN  [item |-> [vpos |-> ChatVpos(it.origin, date),
                   date |-> date,
                   id |-> Some(t.id),
                   user_id |-> IF t.user = None THEN None
                               ELSE Some(Unwrap(t.user).screen_name),
                   mail |-> None,
                   content |-> cleanup(t.full_text)],
         iter |-> [rest |-> Tail(it.rest),
                   origin |-> NextOrigin(it.origin, date)]]

\* Iterator::collect::<Vec<_>>() of the iterator
RECURSIVE CollectChats(_)
CollectChats(it) ==
    IF it.rest = <<>> THEN <<>>
    ELSE LET n == ChatIterNext(it)
         IN  <<n.item>> \o CollectChats(n.iter)

\* the comparison given to sort_by: a.created_at.cmp(&b.created_at) is Less
TweetLess(a, b) == CreatedAtLess(a.created_at, b.created_at)

RECURSIVE SortedInsertBeforeEqual(_, _)
\* mutant: t goes before the elements equal to it, as an unstable sort may put it
SortedInsertBeforeEqual(sorted, t) ==
    IF sorted = <<>> THEN <<t>>
    ELSE IF ~TweetLess(sorted[1], t) THEN <<t>> \o sorted
    ELSE <<sorted[1]>> \o SortedInsertBeforeEqual(Tail(sorted), t)

\* insert t behind every element that is not greater than it
RECURSIVE SortedInsert(_, _)
SortedInsert(sorted, t) ==
    IF sorted = <<>> THEN <<t>>
    ELSE IF TweetLess(t, sorted[1]) THEN <<t>> \o sorted
    ELSE <<sorted[1]>> \o SortedInsert(Tail(sorted), t)

\* Vec::sort_by: a stable sort
RECURSIVE SortTweets(_)
SortTweets(v) ==
    IF v = <<>> THEN <<>>
    ELSE SortedInsert(SortTweets(Front(v)), Last(v))

map_to_sorted_chats(tweets) == map_to_chat(SortTweets(tweets))

(***************************************************************************)
(* nicodo/xml.rs: write_xml.  The document is the sequence of events       *)
(* handed to Writer::write_event; each event is written to the sink at     *)
(* once, so a failing write leaves the events before it in the sink.       *)
(***************************************************************************)
\* u64::to_string / usize::to_string: the decimal digits as characters
to_string(n) == LET d == IntToBig(n) IN [i \in 1..Len(d) |-> Digits[d[i] + 1]]

Attr(key, value) == [key |-> key, value |-> value]

OptAttr(key, opt) == IF opt = None THEN <<>> ELSE <<Attr(key, Unwrap(opt))>>

\* the events written before the loop, for len records
HeaderEvents(len) ==
    << [ev |-> "Decl", version |-> "1.0", encoding |-> "utf-8"],
       [ev |-> "Start", name |-> "packet", attrs |-> <<>>],
       [ev |-> "Empty", name |-> "thread",
        attrs |-> <<Attr("last_res", to_string(len - 1)), Attr("ticket", <<>>)>>],
       [ev |-> "Empty", name |-> "view_counter",
        attrs |-> <<Attr("video", <<"0">>)>>] >>

\* mutant: `no` is written as enumerate() gives it, without the + 1
ChatEventsZeroBased(no, c) ==
    IF c.content = <<>> THEN <<>>
    ELSE << [ev |-> "Start", name |-> "chat",
             attrs |-> <<Attr("date", to_string(c.date)),
                         Attr("vpos", to_string(c.vpos)),
                         Attr("no", to_string(no))>>
                       \o OptAttr("user_id", c.user_id)
                       \o OptAttr("mail", c.mail)
                       \o OptAttr("mail", c.id)],
            [ev |-> "Text", text |-> c.content],
            [ev |-> "End", name |-> "chat"] >>

\* the events of one pass of the loop, for the record c at index no (0-based)
ChatEvents(no, c) ==
    IF c.content = <<>> THEN <<>>
    ELSE << [ev |-> "Start", name |-> "chat",
             attrs |-> <<Attr("date", to_string(c.date)),
                         Attr("vpos", to_string(c.vpos)),
                         Attr("no", to_string(no + 1))>>
                       \o OptAttr("user_id", c.user_id)
                       \o OptAttr("mail", c.mail)
                       \o OptAttr("mail", c.id)],
            [ev |-> "Text", text |-> c.content],
            [ev |-> "End", name |-> "chat"] >>

RECURSIVE AllChatEvents(_, _)
\* chats.enumerate(): the events of the records from index no on
AllChatEvents(chats, no) ==
    IF no >= Len(chats) THEN <<>>
    ELSE ChatEvents(no, chats[no + 1]) \o AllChatEvents(chats, no + 1)

\* every event write_xml hands to the writer when no write fails
XmlEvents(chats) ==
    IF Len(chats) = 0 THEN <<>>
    ELSE HeaderEvents(Len(chats)) \o AllChatEvents(chats, 0)
         \o << [ev |-> "End", name |-> "packet"] >>

\* mutant: the declaration is written before the length is looked at
write_xml_decl_first(chats, accepts) ==
    LET decl == << [ev |-> "Decl", version |-> "1.0", encoding |-> "utf-8"] >>
        events == IF Len(chats) = 0 THEN decl ELSE XmlEvents(chats)
    IN  IF accepts >= Len(events)
        THEN [written |-> events, result |-> "Ok"]
        ELSE [written |-> SubSeq(events, 1, accepts), result |-> "Err"]

\* write_xml on a sink that accepts `accepts` events and fails the next
\* write: what reached the sink, and the result
write_xml(chats, accepts) ==
    LET events == XmlEvents(chats)
    IN  IF accepts >= Len(events)
        THEN [written |-> events, result |-> "Ok"]
        ELSE [written |-> SubSeq(events, 1, accepts), result |-> "Err"]

(***************************************************************************)
(* twitter.rs: Query::to_string, the words that join(" ") puts together    *)
(***************************************************************************)
QueryToString(query) ==
    << <<query.text>> >>
    \o (IF query.since = None THEN <<>> ELSE << <<"since:", Unwrap(query.since)>> >>)
    \o (IF query.until = None THEN <<>> ELSE << <<"until:", Unwrap(query.until)>> >>)

(***************************************************************************)
(* Bounds and input domains of the pipeline                                *)
(***************************************************************************)
\* requests the search may issue before the model stops it
MaxRequests == 3
\* polls of the stream after it has ended
MaxExtraPolls == 1

\* main gives both dates
Queries ==
    { [text |-> "rust", since |-> Some("2020-08-01"), until |-> Some("2020-08-02")] }

\* id 4194304000: 1000 ms after the epoch constant
RawTweetA ==
    [id_str |-> <<"4", "1", "9", "4", "3", "0", "4", "0", "0", "0">>,
     full_text |-> <<"h", "i">>, user_id_str |-> "u1"]
\* id 0, a text that is a hashtag only, an author the page does not list
RawTweetB ==
    [id_str |-> <<"0">>, full_text |-> <<"#", "t">>, user_id_str |-> "u2"]
\* an id that is no integer
RawTweetX ==
    [id_str |-> <<"1", "2", "x">>, full_text |-> <<"y", "o">>, user_id_str |-> "u1"]

PageTweets == { <<>>, <<RawTweetA>>, <<RawTweetX, RawTweetB>> }

PageUsers == [u \in {"u1"} |-> [screen_name |-> "alice"]]

Entry(entry_id, operation) == [entry_id |-> entry_id, operation |-> operation]
AddEntries(entries) == [add_entries |-> Some(entries), replace_entry |-> None]
ReplaceEntry(entry) == [add_entries |-> None, replace_entry |-> Some(entry)]

PageInstructions ==
    { \* no instruction at all
      <<>>,
      \* the bottom cursor among added entries
      << AddEntries(<< Entry("tweet-1", None), Entry("sq-cursor-top", Some("c0")),
                       Entry(CursorBottom, Some("c1")) >>) >>,
      \* the bottom cursor in a replaced entry
      << AddEntries(<< Entry("tweet-1", None) >>),
         ReplaceEntry(Entry(CursorBottom, Some("c2"))) >>,
      \* an instruction with both fields: only its added entries are read
      << [add_entries |-> Some(<< Entry("sq-cursor-top", Some("c0")) >>),
          replace_entry |-> Some(Entry(CursorBottom, Some("c1")))] >>,
      \* the first bottom entry has no operation, a later one has
      << AddEntries(<< Entry(CursorBottom, None) >>),
         ReplaceEntry(Entry(CursorBottom, Some("c2"))) >>,
      \* an instruction with neither field
      << [add_entries |-> None, replace_entry |-> None] >> }

\* the bodies that decode as a RawResponse
RawResponses ==
    { [tweets |-> t, users |-> PageUsers, instructions |-> i] :
        t \in PageTweets, i \in PageInstructions }

\* send().await? fails, error_for_status()? fails, json().await? fails
RequestErrors == {"transport", "status", "body"}

\* a document left by an earlier run; write_xml writes no such event
OldDocument == << [ev |-> "Comment", text |-> "left by an earlier run"] >>

(***************************************************************************)
(* State                                                                   *)
(***************************************************************************)
VARIABLES
    query,      \* the Query given to search_tweets
    ctx,        \* Context of try_unfold: [cursor, finished]
    stream,     \* try_unfold: "state" (holds ctx), "fut" (a request awaits
                \* its response), "none" (it has ended)
    requests,   \* the requests sent so far, in order
    responses,  \* what came back for them, in order: a RawResponse or an error
    items,      \* what the stream has yielded so far, in order
    extraPolls, \* polls of the ended stream
    pc,         \* main: "collect", "transform", "create", "write", "done", "failed"
    chats,      \* main: the Vec<Chat> built from the collected pages
    file,       \* the output file: None, or Some(the events in it)
    result      \* what main returned: "running", "Ok", or the MainError variant

pipeVars ==
    <<query, ctx, stream, requests, responses, items, extraPolls, pc, chats, file, result>>

PipeInit ==
    /\ query \in Queries
    /\ ctx = [cursor |-> None, finished |-> FALSE]
    /\ stream = "state"
    /\ requests = <<>>
    /\ responses = <<>>
    /\ items = <<>>
    /\ extraPolls = 0
    /\ pc = "collect"
    /\ chats = <<>>
    /\ file \in {None, Some(OldDocument)}
    /\ result = "running"

(***************************************************************************)
(* twitter.rs: search_tweets, the closure given to try_unfold              *)
(***************************************************************************)
\* mutant: the cursor is never added to the request
BuildRequestNoCursor(c, q) == [q |-> QueryToString(q), cursor |-> None]

\* the request the closure builds from ctx
BuildRequest(c, q) == [q |-> QueryToString(q), cursor |-> c.cursor]

\* mutant: a page without a cursor does not end the search
NextContextTweetsOnly(res) ==
    [cursor |-> next_cursor(res), finished |-> (Len(res.tweets) = 0)]

\* the Context the closure returns with the page
NextContext(res) ==
    LET cursor == next_cursor(res)
    IN  [cursor |-> cursor,
         finished |-> (Len(res.tweets) = 0 \/ cursor = None)]

\* poll with ctx.finished: the closure returns Ok(None), the stream ends
PollFinished ==
    /\ pc = "collect"
    /\ stream = "state"
    /\ ctx.finished
    /\ items' = Append(items, [kind |-> "end"])
    /\ stream' = "none"
    /\ pc' = "transform"
    /\ UNCHANGED <<query, ctx, requests, responses, extraPolls, chats, file, result>>

\* poll with ctx not finished: the closure sends the request and awaits
SendRequest ==
    /\ pc = "collect"
    /\ stream = "state"
    /\ ~ctx.finished
    /\ Len(requests) < MaxRequests
    /\ requests' = Append(requests, BuildRequest(ctx, query))
    /\ stream' = "fut"
    /\ UNCHANGED <<query, ctx, responses, items, extraPolls, pc, chats, file, result>>

\* mutant: the stream keeps its state after an error and may be polled on
ReceiveErrorRetry(e) ==
    /\ stream = "fut"
    /\ items' = Append(items, [kind |-> "err", err |-> e, req |-> Len(requests)])
    /\ stream' = "state"
    /\ responses' = Append(responses, [kind |-> "err", err |-> e])
    /\ UNCHANGED <<query, ctx, requests, extraPolls, pc, chats, file, result>>

\* mutant: the error is swallowed and main goes on with the pages it has
ReceiveErrorIgnored(e) ==
    /\ stream = "fut"
    /\ items' = Append(items, [kind |-> "err", err |-> e, req |-> Len(requests)])
    /\ stream' = "none"
    /\ pc' = "transform"
    /\ responses' = Append(responses, [kind |-> "err", err |-> e])
    /\ UNCHANGED <<query, ctx, requests, extraPolls, chats, file, result>>

\* the request fails: `?` returns the error, try_unfold yields it and drops
\* its state; try_collect returns it and main returns it
ReceiveError(e) ==
    /\ stream = "fut"
    /\ items' = Append(items, [kind |-> "err", err |-> e, req |-> Len(requests)])
    /\ stream' = "none"
    /\ pc' = "failed"
    /\ result' = "Twitter"
    /\ responses' = Append(responses, [kind |-> "err", err |-> e])
    /\ UNCHANGED <<query, ctx, requests, extraPolls, chats, file>>

\* the response decodes as res: the page is yielded with the next Context
ReceivePage(res) ==
    /\ stream = "fut"
    /\ ctx' = NextContext(res)
    /\ items' = Append(items, [kind |-> "page", page |-> ResponseFromRaw(res),
                               req |-> Len(requests)])
    /\ stream' = "state"
    /\ responses' = Append(responses, [kind |-> "page", raw |-> res])
    /\ UNCHANGED <<query, requests, extraPolls, pc, chats, file, result>>

\* try_unfold polled after it has ended, before its holder drops it:
\* Ready(None), nothing else
PollEnded ==
    /\ stream = "none"
    /\ pc \in {"transform", "failed"}
    /\ extraPolls < MaxExtraPolls
    /\ extraPolls' = extraPolls + 1
    /\ items' = Append(items, [kind |-> "end"])
    /\ UNCHANGED <<query, ctx, stream, requests, responses, pc, chats, file, result>>

(***************************************************************************)
(* main.rs: main, from the collected pages on                              *)
(***************************************************************************)
RECURSIVE Flatten(_)
Flatten(pages) == IF pages = <<>> THEN <<>> ELSE pages[1] \o Flatten(Tail(pages))

RECURSIVE OkPages(_)
\* try_collect::<Vec<_>>: the pages yielded
OkPages(its) ==
    IF its = <<>> THEN <<>>
    ELSE IF its[1].kind = "page" THEN <<its[1].page>> \o OkPages(Tail(its))
    ELSE OkPages(Tail(its))

\* flatten, map_to_sorted_chats, collect; an empty result ends the run
Transform ==
    /\ pc = "transform"
    /\ chats' = CollectChats(map_to_sorted_chats(Flatten(OkPages(items))))
    /\ IF chats' = <<>>
       THEN pc' = "done" /\ result' = "Ok"
       ELSE pc' = "create" /\ result' = result
    /\ UNCHANGED <<query, ctx, stream, requests, responses, items, extraPolls, file>>

\* File::create(output): the file is created or truncated, or the call fails
CreateFile ==
    /\ pc = "create"
    /\ \/ /\ file' = Some(<<>>)
          /\ pc' = "write"
          /\ result' = result
       \/ /\ file' = file
          /\ pc' = "failed"
          /\ result' = "IO"
    /\ UNCHANGED <<query, ctx, stream, requests, responses, items, extraPolls, chats>>

\* write_xml(w, tweets.iter()) on a file that takes `accepts` events
WriteXml(accepts) ==
    /\ pc = "write"
    /\ LET w == write_xml(chats, accepts)
       IN  /\ file' = Some(w.written)
           /\ IF w.result = "Ok"
              THEN pc' = "done" /\ result' = "Ok"
              ELSE pc' = "failed" /\ result' = "XML"
    /\ UNCHANGED <<query, ctx, stream, requests, responses, items, extraPolls, chats>>

\* the pipeline is not run
PipeIdle ==
    /\ query = [text |-> "", since |-> None, until |-> None]
    /\ ctx = [cursor |-> None, finished |-> FALSE]
    /\ stream = "unused"
    /\ requests = <<>>
    /\ responses = <<>>
    /\ items = <<>>
    /\ extraPolls = 0
    /\ pc = "unused"
    /\ chats = <<>>
    /\ file = None
    /\ result = "running"

(***************************************************************************)
(* The library functions on their own: map_to_sorted_chats, the iterator   *)
(* it returns, and write_xml on the records collected from it              *)
(***************************************************************************)
\* records given to map_to_sorted_chats
MaxTweets == 3

DateTime(secs, millis) == Some([secs |-> secs, millis |-> millis])

ChatInstants ==
    {None, DateTime(50, 0), DateTime(100, 0), DateTime(100, 500), DateTime(150, 0)}

ChatTexts == { <<>>, <<"h", "i">> }

\* the id tells the records of one instant and text apart from the others
ChatTweetId(created_at, full_text) ==
    (IF created_at = None THEN <<"x">>
     ELSE to_string(Unwrap(created_at).secs * MillisPerSec + Unwrap(created_at).millis))
    \o (IF full_text = <<>> THEN <<"0">> ELSE <<"1">>)

\* every instant with a text, two of them with an empty text as well
ChatTweets ==
    { [id |-> ChatTweetId(c, t), created_at |-> c, full_text |-> t,
       user_id |-> "u1",
       user |-> IF t = <<>> THEN None ELSE Some([screen_name |-> "alice"])] :
        c \in ChatInstants, t \in ChatTexts \ {<<>>} }
    \cup
    { [id |-> ChatTweetId(c, <<>>), created_at |-> c, full_text |-> <<>>,
       user_id |-> "u2", user |-> None] :
        c \in {None, DateTime(100, 0)} }

SeqsUpTo(S, n) == UNION { [1..k -> S] : k \in 0..n }

VARIABLES
    src,     \* the records given to map_to_sorted_chats
    iter,    \* the TweetToChatIterator
    out,     \* the chats next() has returned so far
    sink,    \* the events written to the writer given to write_xml
    wres,    \* what write_xml returned: "none" before the call, "Ok", "Err"
    cpc      \* "start", "iter", "collected", "written"

chatVars == <<src, iter, out, sink, wres, cpc>>

ChatInit ==
    /\ src \in SeqsUpTo(ChatTweets, MaxTweets)
    /\ iter = map_to_chat(<<>>)
    /\ out = <<>>
    /\ sink = <<>>
    /\ wres = "none"
    /\ cpc = "start"

ChatIdle ==
    /\ src = <<>>
    /\ iter = map_to_chat(<<>>)
    /\ out = <<>>
    /\ sink = <<>>
    /\ wres = "none"
    /\ cpc = "unused"

\* src.into_iter().map_to_sorted_chats()
MapToSortedChats ==
    /\ cpc = "start"
    /\ iter' = map_to_sorted_chats(src)
    /\ cpc' = "iter"
    /\ UNCHANGED <<src, out, sink, wres>>

\* one call of next() that returns Some(chat)
IterNext ==
    /\ cpc = "iter"
    /\ iter.rest # <<>>
    /\ LET n == ChatIterNext(iter)
       IN  /\ out' = Append(out, n.item)
           /\ iter' = n.iter
    /\ UNCHANGED <<src, sink, wres, cpc>>

\* the call of next() that returns None: collect() is done
IterEnd ==
    /\ cpc = "iter"
    /\ iter.rest = <<>>
    /\ cpc' = "collected"
    /\ UNCHANGED <<src, iter, out, sink, wres>>

\* write_xml(writer, out.iter()) on a writer that takes `accepts` events
WriteChats(accepts) ==
    /\ cpc = "collected"
    /\ LET w == write_xml(out, accepts)
       IN  /\ sink' = w.written
           /\ wres' = w.result
    /\ cpc' = "written"
    /\ UNCHANGED <<src, iter, out>>

(***************************************************************************)
(* cleanup on its own, called on every bounded text                        *)
(***************************************************************************)
\* pieces a text is put together from
MaxPieces == 4

\* a hashtag, a lone '#', a word, the kinds of whitespace, and a scheme and
\* a rest that make a URL when they meet
TextPieces ==
    { <<"#", "t">>, <<"#">>, <<"a">>, <<" ">>, <<"\t">>, <<"\n">>,
      <<"f", "t", "p">>, <<":", "/", "/", "x">> }

RECURSIVE Concat(_)
Concat(parts) ==
    IF parts = <<>> THEN <<>> ELSE parts[1] \o Concat(Tail(parts))

\* "#tag hello http://example.com world"
ExampleText ==
    <<"#", "t", "a", "g", " ", "h", "e", "l", "l", "o", " ",
      "h", "t", "t", "p", ":", "/", "/",
      "e", "x", "a", "m", "p", "l", "e", ".", "c", "o", "m", " ",
      "w", "o", "r", "l", "d">>

CleanupInputs ==
    { Concat(parts) : parts \in SeqsUpTo(TextPieces, MaxPieces) }
    \cup {ExampleText}

VARIABLES
    text,     \* the full_text given to cleanup
    cleaned,  \* what cleanup returned
    tpc       \* "start", "done"

textVars == <<text, cleaned, tpc>>

CleanupInit ==
    /\ text \in CleanupInputs
    /\ cleaned = <<>>
    /\ tpc = "start"

CleanupIdle ==
    /\ text = <<>>
    /\ cleaned = <<>>
    /\ tpc = "unused"

\* cleanup(&tweet.full_text)
Cleanup ==
    /\ tpc = "start"
    /\ cleaned' = cleanup(text)
    /\ tpc' = "done"
    /\ UNCHANGED text

(***************************************************************************)
(* TweetID::datetime on its own, called on every bounded identifier        *)
(***************************************************************************)
\* characters of an arbitrary identifier string
MaxIdLen == 3
\* identifiers around the multiples k * 2^22, k up to MaxShifted
MaxShifted == 20

IdChars == {"0", "1", "9", "-", "+", "x"}

\* "1289960487912783872", the identifier of test_tweet_id
ExampleId ==
    <<"1", "2", "8", "9", "9", "6", "0", "4", "8", "7", "9", "1", "2", "7",
      "8", "3", "8", "7", "2">>

\* i64::MIN, the first identifiers beyond either end of i64, and an
\* identifier of the year 2038 (the instants of later ones have more whole
\* seconds than the checker's integers hold)
IdExtremes ==
    { <<"-", "9", "2", "2", "3", "3", "7", "2", "0", "3", "6", "8", "5", "4",
        "7", "7", "5", "8", "0", "8">>,
      <<"-", "9", "2", "2", "3", "3", "7", "2", "0", "3", "6", "8", "5", "4",
        "7", "7", "5", "8", "0", "9">>,
      <<"9", "2", "2", "3", "3", "7", "2", "0", "3", "6", "8", "5", "4", "7",
        "7", "5", "8", "0", "8">>,
      <<"3", "6", "0", "0", "0", "0", "0", "0", "0", "0", "0", "0", "0", "0",
        "0", "0", "0", "0", "0">> }

\* every short string, the identifiers k * 2^22 - 1, k * 2^22 and
\* k * 2^22 + 1 bare and behind "-", "+" and "0", and the long ones
IdInputs ==
    SeqsUpTo(IdChars, MaxIdLen)
    \cup { sign \o to_string(k * TwoPow22 + o) :
             sign \in {<<>>, <<"-">>, <<"+">>, <<"0">>},
             k \in 1..MaxShifted, o \in {-1, 0, 1} }
    \cup {ExampleId} \cup IdExtremes

VARIABLES
    id_str,  \* the string of the TweetID
    id_dt,   \* what datetime() returned: Some(DateTime) for Ok, None for Err
    ipc      \* "start", "done"

idVars == <<id_str, id_dt, ipc>>

IdInit ==
    /\ id_str \in IdInputs
    /\ id_dt = None
    /\ ipc = "start"

IdIdle ==
    /\ id_str = <<>>
    /\ id_dt = None
    /\ ipc = "unused"

\* TweetID(id_str).datetime()
DecodeId ==
    /\ ipc = "start"
    /\ id_dt' = datetime(id_str)
    /\ ipc' = "done"
    /\ UNCHANGED id_str

(***************************************************************************)
(* twitter.rs: cookie_map, Cookie::from_str, Display for Cookie            *)
(***************************************************************************)
\* str::split on one character: the pieces between its occurrences
RECURSIVE SplitFrom(_, _, _, _)
SplitFrom(s, sep, from, piece) ==
    IF from > Len(s) THEN <<piece>>
    ELSE IF s[from] = sep THEN <<piece>> \o SplitFrom(s, sep, from + 1, <<>>)
    ELSE SplitFrom(s, sep, from + 1, Append(piece, s[from]))

Split(s, sep) == SplitFrom(s, sep, 1, <<>>)

RECURSIVE TrimEndMatches(_, _)
TrimEndMatches(s, c) ==
    IF s # <<>> /\ Last(s) = c THEN TrimEndMatches(Front(s), c) ELSE s

\* s.trim().trim_end_matches(';').split("=").next_tuple(): the first two
\* pieces when there are two, else None
CookiePair(part) ==
    LET pieces == Split(TrimEndMatches(Trim(part), ";"), "=")
    IN  IF Len(pieces) >= 2 THEN Some(<<pieces[1], pieces[2]>>) ELSE None

MapInsert(m, k, v) == [x \in DOMAIN m \cup {k} |-> IF x = k THEN v ELSE m[x]]

RECURSIVE CollectPairs(_, _)
\* collect::<HashMap<_, _>>(): a later pair replaces an earlier one of its key
CollectPairs(parts, m) ==
    IF parts = <<>> THEN m
    ELSE LET kv == CookiePair(parts[1])
         IN  CollectPairs(Tail(parts),
                          IF kv = None THEN m
                          ELSE MapInsert(m, Unwrap(kv)[1], Unwrap(kv)[2]))

EmptyMap == [x \in {} |-> <<>>]

cookie_map(s) == CollectPairs(Split(s, ";"), EmptyMap)

KeyAuthToken == <<"a", "u", "t", "h", "_", "t", "o", "k", "e", "n">>
KeyTwitterSess == <<"_", "t", "w", "i", "t", "t", "e", "r", "_", "s", "e", "s", "s">>
KeyCt0 == <<"c", "t", "0">>

\* Cookie::from_str
CookieFromStr(s) ==
    LET map == cookie_map(s)
    IN  IF KeyAuthToken \notin DOMAIN map
        THEN [ok |-> FALSE, err |-> "AuthTokenMissing"]
        ELSE IF KeyTwitterSess \notin DOMAIN map
        THEN [ok |-> FALSE, err |-> "TwitterSessMissing"]
        ELSE IF KeyCt0 \notin DOMAIN map
        THEN [ok |-> FALSE, err |-> "Ct0Missing"]
        ELSE [ok |-> TRUE,
              cookie |-> [auth_token |-> map[KeyAuthToken],
                          twitter_sess |-> map[KeyTwitterSess],
                          ct0 |-> map[KeyCt0]]]

\* Display for Cookie
CookieToString(c) ==
    KeyAuthToken \o <<"=">> \o c.auth_token \o <<";", " ">>
    \o KeyTwitterSess \o <<"=">> \o c.twitter_sess \o <<";", " ">>
    \o KeyCt0 \o <<"=">> \o c.ct0

\* key=value pairs in a cookie string
MaxPairs == 3

CookieKeys == {KeyAuthToken, KeyTwitterSess, KeyCt0, <<"f", "o", "o">>}
\* cookie values: a plain one and one with '=' in it
CookieValues == { <<"A">>, <<"b", "=", "c">> }

\* key=value, a key with an empty value, a key with no '='
CookieSegments ==
    { k \o <<"=">> \o v : k \in CookieKeys, v \in CookieValues }
    \cup { KeyAuthToken \o <<"=">>, KeyCt0 }

CookieSeparators == { <<";", " ">>, <<";">> }

RECURSIVE Join(_, _)
Join(parts, sep) ==
    IF parts = <<>> THEN <<>>
    ELSE IF Len(parts) = 1 THEN parts[1]
    ELSE parts[1] \o sep \o Join(Tail(parts), sep)

CookieInputs ==
    { Join(parts, sep) : parts \in SeqsUpTo(CookieSegments, MaxPairs),
                         sep \in CookieSeparators }

VARIABLES
    cookie_str,  \* the string given to Cookie::from_str
    cookie_res,  \* what from_str returned
    cookie_fmt,  \* format!("{}", cookie) of the parsed Cookie
    kpc          \* "start", "parsed", "failed", "formatted"

cookieVars == <<cookie_str, cookie_res, cookie_fmt, kpc>>

vars == <<pipeVars, chatVars, cookieVars, textVars, idVars>>

CookieInit ==
    /\ cookie_str \in CookieInputs
    /\ cookie_res = [ok |-> FALSE, err |-> "none"]
    /\ cookie_fmt = <<>>
    /\ kpc = "start"

CookieIdle ==
    /\ cookie_str = <<>>
    /\ cookie_res = [ok |-> FALSE, err |-> "none"]
    /\ cookie_fmt = <<>>
    /\ kpc = "unused"

\* cookie.parse::<Cookie>()
ParseCookie ==
    /\ kpc = "start"
    /\ cookie_res' = CookieFromStr(cookie_str)
    /\ kpc' = IF cookie_res'.ok THEN "parsed" ELSE "failed"
    /\ UNCHANGED <<cookie_str, cookie_fmt>>

\* format!("{}", self.cookie), as Auth::headers does
FormatCookie ==
    /\ kpc = "parsed"
    /\ cookie_fmt' = CookieToString(cookie_res.cookie)
    /\ kpc' = "formatted"
    /\ UNCHANGED <<cookie_str, cookie_res>>

(***************************************************************************)
(* Specifications                                                          *)
(***************************************************************************)
PipeNext ==
    \/ SendRequest /\ UNCHANGED <<chatVars, cookieVars, textVars, idVars>>
    \/ \E e \in RequestErrors : ReceiveError(e) /\ UNCHANGED <<chatVars, cookieVars, textVars, idVars>>
    \/ \E res \in RawResponses : ReceivePage(res) /\ UNCHANGED <<chatVars, cookieVars, textVars, idVars>>
    \/ PollFinished /\ UNCHANGED <<chatVars, cookieVars, textVars, idVars>>
    \/ PollEnded /\ UNCHANGED <<chatVars, cookieVars, textVars, idVars>>
    \/ Transform /\ UNCHANGED <<chatVars, cookieVars, textVars, idVars>>
    \/ CreateFile /\ UNCHANGED <<chatVars, cookieVars, textVars, idVars>>
    \/ \E accepts \in 0..Len(XmlEvents(chats)) :
          WriteXml(accepts) /\ UNCHANGED <<chatVars, cookieVars, textVars, idVars>>

ChatNext ==
    \/ MapToSortedChats /\ UNCHANGED <<pipeVars, cookieVars, textVars, idVars>>
    \/ IterNext /\ UNCHANGED <<pipeVars, cookieVars, textVars, idVars>>
    \/ IterEnd /\ UNCHANGED <<pipeVars, cookieVars, textVars, idVars>>
    \/ \E accepts \in 0..Len(XmlEvents(out)) :
          WriteChats(accepts) /\ UNCHANGED <<pipeVars, cookieVars, textVars, idVars>>

CookieNext ==
    \/ ParseCookie /\ UNCHANGED <<pipeVars, chatVars, textVars, idVars>>
    \/ FormatCookie /\ UNCHANGED <<pipeVars, chatVars, textVars, idVars>>

CleanupNext == Cleanup /\ UNCHANGED <<pipeVars, chatVars, cookieVars, idVars>>

IdNext == DecodeId /\ UNCHANGED <<pipeVars, chatVars, cookieVars, textVars>>

PipeSpecInit == PipeInit /\ ChatIdle /\ CookieIdle /\ CleanupIdle /\ IdIdle
ChatSpecInit == PipeIdle /\ ChatInit /\ CookieIdle /\ CleanupIdle /\ IdIdle
CookieSpecInit == PipeIdle /\ ChatIdle /\ CookieInit /\ CleanupIdle /\ IdIdle
CleanupSpecInit == PipeIdle /\ ChatIdle /\ CookieIdle /\ CleanupInit /\ IdIdle
IdSpecInit == PipeIdle /\ ChatIdle /\ CookieIdle /\ CleanupIdle /\ IdInit

\* the program: main with its search, transformation and output
PipeSpec == PipeSpecInit /\ [][PipeNext]_vars

\* map_to_sorted_chats and write_xml called on every bounded input
ChatSpec == ChatSpecInit /\ [][ChatNext]_vars

\* Cookie::from_str and Display called on every bounded input
CookieSpec == CookieSpecInit /\ [][CookieNext]_vars

\* cleanup called on every bounded text
CleanupSpec == CleanupSpecInit /\ [][CleanupNext]_vars

\* TweetID::datetime called on every bounded identifier
IdSpec == IdSpecInit /\ [][IdNext]_vars

Init ==
    PipeSpecInit \/ ChatSpecInit \/ CookieSpecInit \/ CleanupSpecInit \/ IdSpecInit

Next == PipeNext \/ ChatNext \/ CookieNext \/ CleanupNext \/ IdNext

Spec == Init /\ [][Next]_vars

(***************************************************************************)
(* Properties of the search and of main                                    *)
(***************************************************************************)
IsPage(r) == r.kind = "page"
AllPages(rs) == \A k \in 1..Len(rs) : IsPage(rs[k])

\* the page ends the search: it has no tweets or no cursor is found in it
EndsSearch(raw) == Len(raw.tweets) = 0 \/ next_cursor(raw) = None

PageItemIndexes == { i \in 1..Len(items) : items[i].kind = "page" }
ItemsOfRequest(k) == { i \in 1..Len(items) : items[i].kind # "end" /\ items[i].req = k }

\* C1: when every response so far is a page, the first page with no tweets or
\* with no cursor is yielded exactly once and is the last page yielded, only
\* end-of-stream follows it, no request follows it, and as many pages are
\* yielded as requests were answered.
C1_LastPageYieldedOnce ==
    AllPages(responses) =>
        /\ Cardinality(PageItemIndexes) = Len(responses)
        /\ stream # "fut" => Cardinality(PageItemIndexes) = Len(requests)
        /\ \A k \in 1..Len(responses) :
              EndsSearch(responses[k].raw) =>
                 /\ Len(requests) = k
                 /\ Cardinality(ItemsOfRequest(k)) = 1
                 /\ \A i \in ItemsOfRequest(k) :
                       /\ items[i].kind = "page"
                       /\ items[i].page = ResponseFromRaw(responses[k].raw)
                       /\ \A j \in (i + 1)..Len(items) : items[j].kind = "end"
                 /\ \/ stream = "state" /\ ctx.finished
                    \/ stream = "none" /\ Last(items).kind = "end"

\* a second page with tweets but without a cursor was yielded, the stream
\* ended after it and was polled once more
C1_Witness ==
    /\ Len(responses) = 2
    /\ AllPages(responses)
    /\ Len(responses[2].raw.tweets) > 0
    /\ next_cursor(responses[2].raw) = None
    /\ Len(requests) = 2
    /\ stream = "none"
    /\ extraPolls = 1
    /\ Len(items) = 4

\* C2: the output file changes only in a state reached after every request
\* was answered by a page, the stream has ended and the chats are built; a
\* run in which a request failed never changes the file.
C2_FileOnlyAfterPipeline ==
    [][ /\ file' # file =>
            /\ pc \in {"create", "write"}
            /\ AllPages(responses)
            /\ Len(responses) = Len(requests)
            /\ stream = "none"
            /\ chats # <<>>
            /\ chats = CollectChats(map_to_sorted_chats(Flatten(OkPages(items))))
        /\ ~AllPages(responses') => (file' = file /\ file \in {None, Some(OldDocument)})
      ]_vars

\* the third request failed after two pages, and the old file is as it was
C2_Witness ==
    /\ Len(responses) = 3
    /\ IsPage(responses[1]) /\ IsPage(responses[2]) /\ ~IsPage(responses[3])
    /\ pc = "failed"
    /\ result = "Twitter"
    /\ file = Some(OldDocument)

\* C3: a failed request is yielded as the error at once, in place of its
\* page; no request and no page follows it, only end-of-stream however often
\* the stream is polled.
C3_ErrorEndsStream ==
    \A k \in 1..Len(responses) :
        ~IsPage(responses[k]) =>
            /\ Len(items) >= k
            /\ items[k].kind = "err"
            /\ items[k].err = responses[k].err
            /\ items[k].req = k
            /\ \A j \in (k + 1)..Len(items) : items[j].kind = "end"
            /\ Len(requests) = k
            /\ Len(responses) = k
            /\ stream = "none"
            /\ pc = "failed"

\* the second request got a non-success status and the stream was polled again
C3_Witness ==
    /\ Len(responses) = 2
    /\ IsPage(responses[1])
    /\ ~IsPage(responses[2]) /\ responses[2].err = "status"
    /\ extraPolls = 1
    /\ Last(items).kind = "end"

\* C4: at most one request is in flight; the first request has no cursor;
\* request k+1 is sent only when response k has come, and carries the cursor
\* found in response k.
C4_SequentialCursor ==
    /\ Len(requests) - Len(responses) \in {0, 1}
    /\ (stream = "fut") <=> (Len(requests) = Len(responses) + 1)
    /\ requests # <<>> => requests[1].cursor = None
    /\ \A k \in 1..(Len(requests) - 1) :
          /\ IsPage(responses[k])
          /\ next_cursor(responses[k].raw) # None
          /\ requests[k + 1].cursor = next_cursor(responses[k].raw)

\* three requests: the second with the cursor c1, the third with c2
C4_Witness ==
    /\ Len(requests) = 3
    /\ requests[2].cursor = Some("c1")
    /\ requests[3].cursor = Some("c2")
    /\ stream = "fut"

(***************************************************************************)
(* Properties of the decoder                                               *)
(***************************************************************************)
HasUnparseableId(raw) ==
    \E j \in 1..Len(raw.tweets) : ParseI64(raw.tweets[j].id_str) = None

C5_VposFromFirstRecord ==
    out # <<>> =>
        /\ out[1].vpos = 0
        /\ \A i \in 2..Len(out) : out[i].vpos = out[i].date - out[1].date

\* the decimal number an attribute value spells
DecimalValue(chars) == BigToInt(DigitsOf(chars))

AttrValue(attrs, key) ==
    LET i == CHOOSE i \in 1..Len(attrs) : attrs[i].key = key IN attrs[i].value

ChatStartIndexes(events) ==
    { e \in 1..Len(events) : events[e].ev = "Start" /\ events[e].name = "chat" }

\* the positions of the records with a body
WithBody(cs) == { i \in 1..Len(cs) : cs[i].content # <<>> }

\* the `no` attributes of the chat elements, in document order
RECURSIVE ChatNumbers(_)
ChatNumbers(events) ==
    IF events = <<>> THEN <<>>
    ELSE IF events[1].ev = "Start" /\ events[1].name = "chat"
         THEN <<DecimalValue(AttrValue(events[1].attrs, "no"))>> \o ChatNumbers(Tail(events))
         ELSE ChatNumbers(Tail(events))

IsIncreasing(ns) == \A i \in 1..(Len(ns) - 1) : ns[i] < ns[i + 1]

\* C7: a complete document of a non-empty record sequence has a chat element
\* for exactly the records with a non-empty body, in input order, each with
\* `no` the 1-based position of its record and with the record's body.
C7_ChatNumbering ==
    (cpc = "written" /\ wres = "Ok" /\ out # <<>>) =>
        LET nos == ChatNumbers(sink)
        IN  /\ { nos[i] : i \in 1..Len(nos) } = WithBody(out)
            /\ Len(nos) = Cardinality(WithBody(out))
            /\ IsIncreasing(nos)
            /\ \A e \in ChatStartIndexes(sink) :
                  /\ sink[e + 1].ev = "Text"
                  /\ sink[e + 1].text =
                        out[DecimalValue(AttrValue(sink[e].attrs, "no"))].content

\* three records, the second with an empty body: chat 1 and chat 3
C7_Witness ==
    /\ cpc = "written"
    /\ wres = "Ok"
    /\ Len(out) = 3
    /\ WithBody(out) = {1, 3}
    /\ ChatNumbers(sink) = <<1, 3>>

\* the instant a record is sorted by, an absent one taken as 0
InstantOf(t) ==
    IF t.created_at = None THEN [secs |-> 0, millis |-> 0] ELSE Unwrap(t.created_at)

InstantLeq(a, b) == ~DateTimeLess(b, a)

\* out is src rearranged by p
Rearranges(p) ==
    \A i \in 1..Len(src) :
        /\ out[i].id = Some(src[p[i]].id)
        /\ out[i].date = InstantOf(src[p[i]]).secs

\* p sorts src by instant and keeps records of one instant in input order
SortsStably(p) ==
    \A i, j \in 1..Len(src) :
        i < j =>
            /\ InstantLeq(InstantOf(src[p[i]]), InstantOf(src[p[j]]))
            /\ InstantOf(src[p[i]]) = InstantOf(src[p[j]]) => p[i] < p[j]
            /\ src[p[i]].created_at # None => src[p[j]].created_at # None

IsExample ==
    /\ Len(src) = 3
    /\ { src[i].created_at : i \in 1..3 }
          = {DateTime(50, 0), DateTime(100, 0), DateTime(150, 0)}

\* C8: the chats collected from map_to_sorted_chats are the input records in
\* non-decreasing order of instant, the records without instant first and
\* records of one instant in input order; the instants 100, 50, 150 in any
\* order give the dates 50, 100, 150 with the offsets 0, 50, 100.
C8_SortedStable ==
    cpc \in {"collected", "written"} =>
        /\ Len(out) = Len(src)
        /\ \E p \in Permutations(1..Len(src)) : Rearranges(p) /\ SortsStably(p)
        /\ \A i \in 1..(Len(out) - 1) : out[i].date <= out[i + 1].date
        /\ IsExample =>
              /\ [i \in 1..3 |-> out[i].date] = <<50, 100, 150>>
              /\ [i \in 1..3 |-> out[i].vpos] = <<0, 50, 100>>

\* the instants 100, 50, 150 given in this order
C8_Witness ==
    /\ cpc = "collected"
    /\ [i \in 1..Len(src) |-> src[i].created_at]
          = <<DateTime(100, 0), DateTime(50, 0), DateTime(150, 0)>>
    /\ [i \in 1..Len(out) |-> out[i].date] = <<50, 100, 150>>
    /\ [i \in 1..Len(out) |-> out[i].vpos] = <<0, 50, 100>>

\* C9: write_xml on no records writes nothing and returns Ok, whatever the
\* writer would accept; no input records give no chats; and a search that
\* found no tweet ends the run with Ok and the output file untouched.
C9_EmptyWritesNothing ==
    /\ (cpc \in {"collected", "written"} /\ src = <<>>) => out = <<>>
    /\ (cpc = "written" /\ out = <<>>) => (sink = <<>> /\ wres = "Ok")
    /\ (pc \in {"create", "write", "done"} /\ Flatten(OkPages(items)) = <<>>) =>
          /\ pc = "done"
          /\ result = "Ok"
          /\ chats = <<>>
          /\ file \in {None, Some(OldDocument)}

\* write_xml has been called on no records
C9_Witness ==
    /\ cpc = "written"
    /\ src = <<>>
    /\ out = <<>>
    /\ sink = <<>>
    /\ wres = "Ok"

\* a search whose only page had no tweets: the run is over without a file
C9_PipelineWitness ==
    /\ pc = "done"
    /\ result = "Ok"
    /\ Len(responses) = 1
    /\ Flatten(OkPages(items)) = <<>>
    /\ file = None

(***************************************************************************)
(* Properties of the cookie codec                                          *)
(***************************************************************************)
\* some ';'-separated part of s is "key=..." once trimmed
KeyGiven(s, key) ==
    LET parts == Split(s, ";")
    IN  \E i \in 1..Len(parts) : StartsWithAt(Trim(parts[i]), 1, key \o <<"=">>)

\* the string "auth_token=a; _twitter_sess=b; ct0=c"
CookieForm(a, b, c) ==
    KeyAuthToken \o <<"=">> \o a \o <<";", " ">>
    \o KeyTwitterSess \o <<"=">> \o b \o <<";", " ">>
    \o KeyCt0 \o <<"=">> \o c

FormValues == CookieValues \cup { <<>> }

HasCookieForm(s) == \E a, b, c \in FormValues : s = CookieForm(a, b, c)

MissingKeyOf(err) ==
    CASE err = "AuthTokenMissing" -> KeyAuthToken
      [] err = "TwitterSessMissing" -> KeyTwitterSess
      [] err = "Ct0Missing" -> KeyCt0

\* C10 as stated: parsing fails, naming a missing key, when one of the three
\* keys is absent and succeeds when none is; a string of the form
\* "auth_token=A; _twitter_sess=B; ct0=C" parses and formats back to itself.
C10_CookieRoundTrip ==
    kpc \in {"parsed", "failed", "formatted"} =>
        /\ cookie_res.ok <=>
              \A key \in {KeyAuthToken, KeyTwitterSess, KeyCt0} : KeyGiven(cookie_str, key)
        /\ ~cookie_res.ok =>
              /\ cookie_res.err \in {"AuthTokenMissing", "TwitterSessMissing", "Ct0Missing"}
              /\ ~KeyGiven(cookie_str, MissingKeyOf(cookie_res.err))
        /\ HasCookieForm(cookie_str) =>
              /\ cookie_res.ok
              /\ kpc = "formatted" => cookie_fmt = cookie_str

(***************************************************************************)
(* Properties of cleanup                                                   *)
(***************************************************************************)
HelloWorld == <<"h", "e", "l", "l", "o", " ", "w", "o", "r", "l", "d">>

HelloTwoSpacesWorld ==
    <<"h", "e", "l", "l", "o", " ", " ", "w", "o", "r", "l", "d">>

\* "ftp://x", a newline, "a"
UrlNewlineWord == <<"f", "t", "p", ":", "/", "/", "x", "\n", "a">>

\* "ftp#t://x": a URL once the hashtag in it is gone
UrlAroundHashtag == <<"f", "t", "p", "#", "t", ":", "/", "/", "x">>

\* "a#t a" and "a#t\na"
HashtagThenBlank == <<"a", "#", "t", " ", "a">>
HashtagThenNewline == <<"a", "#", "t", "\n", "a">>

\* a '#' with a word character after it
HashtagAt(s, i) == i < Len(s) /\ s[i] = "#" /\ s[i + 1] \in WordChars

UrlSchemes ==
    { <<"h", "t", "t", "p", ":", "/", "/">>,
      <<"h", "t", "t", "p", "s", ":", "/", "/">>,
      <<"f", "t", "p", ":", "/", "/">> }

\* a scheme, "://" and one more character that is not whitespace
UrlAt(s, i) ==
    \E p \in UrlSchemes :
        /\ i + Len(p) <= Len(s)
        /\ SubSeq(s, i, i + Len(p) - 1) = p
        /\ s[i + Len(p)] \notin WhiteSpace

NoOuterSpace(s) ==
    s = <<>> \/ (s[1] \notin WhiteSpace /\ s[Len(s)] \notin WhiteSpace)

\* what both readings of the cleanup agree on: the result is trimmed and
\* holds no URL; it holds no hashtag unless the text had two '#' in a row;
\* a hashtag goes with the spaces and tabs after it but not with a newline;
\* the hashtags go before the URLs are looked for
CleanupRemoves ==
    /\ NoOuterSpace(cleaned)
    /\ \A i \in 1..Len(cleaned) : ~UrlAt(cleaned, i)
    /\ (\A i \in 1..(Len(text) - 1) : ~(text[i] = "#" /\ text[i + 1] = "#"))
          => \A i \in 1..Len(cleaned) : ~HashtagAt(cleaned, i)
    /\ Len(cleaned) <= Len(text)
    /\ text = HashtagThenBlank => cleaned = <<"a", "a">>
    /\ text = HashtagThenNewline => cleaned = <<"a", "\n", "a">>
    /\ text = UrlAroundHashtag => cleaned = <<>>

\* C11 as stated: cleanup removes every hashtag with the horizontal
\* whitespace after it, then every URL up to the next whitespace, then
\* trims, and "#tag hello http://example.com world" becomes "hello world".
C11_CleanupAsStated ==
    tpc = "done" =>
        /\ CleanupRemoves
        /\ text = UrlNewlineWord => cleaned = <<"a">>
        /\ text = ExampleText => cleaned = HelloWorld

\* C11 amended: cleanup removes every hashtag with the horizontal
\* whitespace after it, then every URL up to the next whitespace that is
\* not a newline (a URL runs on through newlines), then trims; the spaces
\* on both sides of a URL stay, so "#tag hello http://example.com world"
\* becomes "hello  world" with two spaces.
C11_CleanupKeepsSpacesAroundUrl ==
    tpc = "done" =>
        /\ CleanupRemoves
        /\ text = UrlNewlineWord => cleaned = <<>>
        /\ text = ExampleText => cleaned = HelloTwoSpacesWorld

C11_Witness ==
    tpc = "done" /\ text = ExampleText /\ cleaned = HelloTwoSpacesWorld


(***************************************************************************)
(* Properties of TweetID::datetime                                         *)
(***************************************************************************)
\* d * k on digits, for a machine integer k
RECURSIVE BigMulCarry(_, _, _)
BigMulCarry(d, k, carry) ==
    IF d = <<>> THEN (IF carry = 0 THEN <<>> ELSE IntToBig(carry))
    ELSE LET p == Last(d) * k + carry
         IN  Append(BigMulCarry(Front(d), k, p \div 10), p % 10)

BigMul(d, k) == BigNorm(BigMulCarry(d, k, 0))

\* signed numbers [neg, mag], zero never negative
Signed(neg, mag) == [neg |-> neg /\ ~IsZero(mag), mag |-> BigNorm(mag)]

SignedAdd(a, b) ==
    IF a.neg = b.neg THEN Signed(a.neg, BigAdd(a.mag, b.mag))
    ELSE IF BigLeq(b.mag, a.mag) THEN Signed(a.neg, BigSub(a.mag, b.mag))
    ELSE Signed(b.neg, BigSub(b.mag, a.mag))

SignedLess(a, b) ==
    IF a.neg # b.neg THEN a.neg
    ELSE IF a.neg THEN BigLess(b.mag, a.mag)
    ELSE BigLess(a.mag, b.mag)

\* the number an identifier string writes: an optional sign and digits
IsSignedDecimal(s) ==
    /\ s # <<>>
    /\ LET body == IF s[1] \in {"+", "-"} THEN Tail(s) ELSE s
       IN  body # <<>> /\ \A i \in 1..Len(body) : IsDigit(body[i])

IdValue(s) ==
    LET body == IF s[1] \in {"+", "-"} THEN Tail(s) ELSE s
    IN  Signed(s[1] = "-", [i \in 1..Len(body) |-> DigitVal(body[i])])

\* -2^63 <= v <= 2^63 - 1
InI64(v) ==
    /\ ~SignedLess(v, Signed(TRUE, BigAdd(I64MaxMag, BigOne)))
    /\ ~SignedLess(Signed(FALSE, I64MaxMag), v)

ParsesAsI64(s) == IsSignedDecimal(s) /\ InI64(IdValue(s))

\* DateTime::timestamp_millis(): the milliseconds since the Unix epoch
InstantMillis(dt) ==
    SignedAdd(Signed(dt.secs < 0,
                     BigMul(IntToBig(IF dt.secs < 0 THEN 0 - dt.secs ELSE dt.secs),
                            MillisPerSec)),
              Signed(FALSE, IntToBig(dt.millis)))

\* q = v >> 22: q * 2^22 <= v < q * 2^22 + 2^22
IsShiftedRight22(v, q) ==
    LET low == Signed(q.neg, BigMul(q.mag, TwoPow22))
    IN  /\ ~SignedLess(v, low)
        /\ SignedLess(v, SignedAdd(low, Signed(FALSE, IntToBig(TwoPow22))))

\* 1596385521282
ExampleMillis == Signed(FALSE, <<1, 5, 9, 6, 3, 8, 5, 5, 2, 1, 2, 8, 2>>)

\* C12: datetime() succeeds exactly for the identifier strings that parse
\* as an i64, and then the instant it returns, in milliseconds since the
\* Unix epoch, is (identifier >> 22) + 1288834974657; the identifier
\* "1289960487912783872" decodes to 1596385521282.
C12_InstantIsShiftedIdPlusEpoch ==
    ipc = "done" =>
        /\ id_dt # None <=> ParsesAsI64(id_str)
        /\ id_dt # None =>
              /\ Unwrap(id_dt).millis \in 0..(MillisPerSec - 1)
              /\ IsShiftedRight22(IdValue(id_str),
                                  SignedAdd(InstantMillis(Unwrap(id_dt)),
                                            Signed(TRUE, EpochMillis)))
        /\ id_str = ExampleId =>
              id_dt # None /\ InstantMillis(Unwrap(id_dt)) = ExampleMillis

C12_Witness ==
    /\ ipc = "done"
    /\ id_str = ExampleId
    /\ id_dt = Some([secs |-> 1596385521, millis |-> 282])

====
